---- MODULE Spec2Model ----
(***************************************************************************)
(* The OBS remote-control client (facefusion/obs_integration.py) and the   *)
(* controller that owns it (facefusion/uis/components/obs_control.py).     *)
(*                                                                         *)
(* The remote side (OBS behind obs-websocket) is a list of inputs, each    *)
(* with a kind, a settings record and a list of filters.  Every protocol   *)
(* call the code makes is logged, and each of them can fail, either with   *)
(* the protocol error the library raises (OBSSDKError) or with any other   *)
(* exception (a lost socket, a timeout).  A call that fails changes        *)
(* nothing on the remote side.                                             *)
(*                                                                         *)
(* Spec is the controller from start-up: its six handlers in any order,    *)
(* on scenes whose inputs are of every kind.  SpecToggle is the filter     *)
(* toggle pressed repeatedly on a connected controller, on scenes whose    *)
(* inputs carry every list of filters.  SpecSettings is the controller     *)
(* over every state of its settings file and every value of a saved port.  *)
(*                                                                         *)
(* The preview monitor (facefusion/uis/monitor_integration.py) is a frame  *)
(* slot, the file latest.jpg, written by the capture loop of               *)
(* facefusion/uis/components/webcam.py and read by one generator per       *)
(* /monitor/mjpeg connection.  SpecCapture is one run of the capture loop  *)
(* with every failure of its steps, SpecSessions is start and stop pressed *)
(* in any order, SpecStream is one capture loop beside the connections,    *)
(* and SpecStreamFair is SpecStream with a connection that keeps running.  *)
(* SpecCaptureFair is SpecCapture with a loop that keeps running.          *)
(*                                                                         *)
(* SpecConcurrent is the handlers of obs_control.py cut into their steps   *)
(* and run by concurrent workers.  SpecProcessors is update_processors of  *)
(* facefusion/uis/components/processors.py on every list of ids.           *)
(***************************************************************************)
EXTENDS Naturals, Sequences, FiniteSets, TLC

VARIABLES
    _client,        \* obs_control._client: NoClient, or the id of a client
    open_clients,   \* ids of the clients created and never passed to disconnect()
    n_clients,      \* how many clients create_client has returned so far
    obs_inputs,     \* the remote side: OBS's inputs, in the order its list call returns
    settings_file,  \* SETTINGS_PATH: [state, data]
    last,           \* the last handler that ran: what it returned and which calls it made
    prev_toggle,    \* set after two consecutive toggles whose protocol calls all succeeded
    fields,         \* what render put into the Host, Port, Password and URL fields
    slot,           \* the frame slot, the file latest.jpg: [exists, frame, bytes]
    sessions,       \* the runs of webcam.start, in the order they were issued
    camera_pool,    \* per device, the session whose capture handle is open (0: none)
    n_frames,       \* how many frames the devices have delivered so far
    conns,          \* the connections to the MJPEG route, each with its generator
    tasks,          \* the handler runs of obs_control.py that are under way, step by step
    processors,     \* state_manager's item 'processors'
    update          \* the last run of update_processors: what it was given and what it did

vars == <<_client, open_clients, n_clients, obs_inputs, settings_file, last, prev_toggle,
          fields, slot, sessions, camera_pool, n_frames, conns, tasks, processors, update>>

\* The state of webcam.py and monitor_integration.py.
monitor_vars == <<slot, sessions, camera_pool, n_frames, conns>>

\* The state of processors.py.
processor_vars == <<processors, update>>

\* What the handlers of obs_control.py leave alone when they run one at a
\* time.
beside_handlers == <<fields, monitor_vars, tasks, processor_vars>>

\* What webcam.py and monitor_integration.py leave alone.
control_vars ==
    <<_client, open_clients, n_clients, obs_inputs, settings_file, last, prev_toggle, fields,
      tasks, processor_vars>>

----------------------------------------------------------------------------
(* Bounds of the model. *)

MaxInputs == 2
MaxFilters == 1
MaxClients == 2
MaxFrames == 2
MaxSessions == 2
MaxConns == 2
MaxTasks == 2
MaxSelected == 2

----------------------------------------------------------------------------
(* Values. *)

\* Python's None where a string or a bool is expected; a bool is "True"/"False".
None == "None"

\* _client = None
NoClient == 0

str(b) == IF b THEN "True" ELSE "False"

\* The filter name the toggle looks for (the literal at obs_integration.py:96).
HEIBAI == "heibai"

OK == "ok"
OBSSDKError == "OBSSDKError"
OtherException == "Exception"

\* The outcome of the n-th protocol call of one handler run under a failure
\* plan: the plan names the call that fails (0: none) and how.
FailPlans(n) ==
    {[at |-> 0, kind |-> OBSSDKError]}
        \cup [at : 1..n, kind : {OBSSDKError, OtherException}]

Outcome(n, fail) == IF fail.at = n THEN fail.kind ELSE OK

Call(call, client, name, args, outcome) ==
    [call |-> call, client |-> client, name |-> name, args |-> args, outcome |-> outcome]

NoArgs == [none |-> None]

AllOk(calls) == \A i \in 1..Len(calls) : calls[i].outcome = OK

----------------------------------------------------------------------------
(* The remote side: what the four protocol calls do in OBS. *)

FFMPEG_SOURCE == "ffmpeg_source"
BROWSER_SOURCE == "browser_source"
InputKinds == {FFMPEG_SOURCE, BROWSER_SOURCE}
FilterNames == {HEIBAI, "other"}

InputName(i) == <<"input1", "input2", "input3", "input4">>[i]

DefaultInputSettings == [local_file |-> "", input |-> "", is_local_file |-> "True"]

\* client.get_input_list(kind=...): the inputs of that kind (all of them when
\* no kind is given), in OBS's order.
get_input_list(inputs, kind) ==
    LET Test(inp) == kind = None \/ inp.inputKind = kind
    IN  SelectSeq(inputs, Test)

\* client.get_source_filter_list(name=...)
get_source_filter_list(inputs, name) ==
    LET Test(inp) == inp.inputName = name
    IN  SelectSeq(inputs, Test)[1].filters

\* client.set_source_filter_enabled(source_name, filter_name, enabled)
set_source_filter_enabled(inputs, source_name, filter_name, enabled) ==
    [i \in 1..Len(inputs) |->
        IF inputs[i].inputName = source_name
        THEN [inputs[i] EXCEPT !.filters =
                [j \in 1..Len(@) |->
                    IF @[j].filterName = filter_name
                    THEN [@[j] EXCEPT !.filterEnabled = enabled]
                    ELSE @[j]]]
        ELSE inputs[i]]

\* client.set_input_settings(name, settings, overlay=True): the given keys
\* are laid over the input's settings.
set_input_settings(inputs, name, settings) ==
    [i \in 1..Len(inputs) |->
        IF inputs[i].inputName = name
        THEN [inputs[i] EXCEPT !.settings =
                [k \in DOMAIN @ |-> IF k \in DOMAIN settings THEN settings[k] ELSE @[k]]]
        ELSE inputs[i]]

----------------------------------------------------------------------------
(* obs_integration.py *)

\* Path(p).absolute(): an absolute path is kept, a relative one is put
\* under the working directory.
CWD == "/app"
AbsolutePaths == {"/videos/a.mp4"}
RelativePaths == {"bgs/b.mp4"}
absolute(p) == IF p \in AbsolutePaths THEN p ELSE CWD \o "/" \o p

default_mjpeg_url == "http://127.0.0.1:7860/monitor/mjpeg"

\* What a function of obs_integration leaves behind: the remote side, the
\* calls it made, its return value, and the exception that escaped it (OK: none).
Ret(inputs, calls, ret, exc) ==
    [inputs |-> inputs, calls |-> calls, ret |-> ret, exc |-> exc]

\* Mutant of update_first_video_source_file: the last listed input, not the first.
update_last_video_source_file(inputs, client, new_file_path, fail) ==
    LET o1 == Outcome(1, fail)
        c1 == Call("get_input_list", client, "", [kind |-> FFMPEG_SOURCE], o1)
        lst == get_input_list(inputs, FFMPEG_SOURCE)
        video_abs_path == absolute(new_file_path)
        input_name == lst[Len(lst)].inputName
        settings == [local_file |-> video_abs_path]
        o2 == Outcome(2, fail)
        c2 == Call("set_input_settings", client, input_name, settings, o2)
    IN  IF o1 # OK THEN Ret(inputs, <<c1>>, None, o1)
        ELSE IF lst # <<>>
        THEN IF o2 # OK THEN Ret(inputs, <<c1, c2>>, None, o2)
             ELSE Ret(set_input_settings(inputs, input_name, settings),
                      <<c1, c2>>, str(TRUE), OK)
        ELSE Ret(inputs, <<c1>>, str(FALSE), OK)

update_first_video_source_file(inputs, client, new_file_path, fail) ==
    LET o1 == Outcome(1, fail)
        c1 == Call("get_input_list", client, "", [kind |-> FFMPEG_SOURCE], o1)
        lst == get_input_list(inputs, FFMPEG_SOURCE)
        video_abs_path == absolute(new_file_path)
        input_name == lst[1].inputName
        settings == [local_file |-> video_abs_path]
        o2 == Outcome(2, fail)
        c2 == Call("set_input_settings", client, input_name, settings, o2)
    IN  IF o1 # OK THEN Ret(inputs, <<c1>>, None, o1)
        ELSE IF lst # <<>>
        THEN IF o2 # OK THEN Ret(inputs, <<c1, c2>>, None, o2)
             ELSE Ret(set_input_settings(inputs, input_name, settings),
                      <<c1, c2>>, str(TRUE), OK)
        ELSE Ret(inputs, <<c1>>, str(FALSE), OK)

\* Mutant of update_first_browser_source_url: inputs[0], not inputs[-1].
update_first_listed_source_url(inputs, client, url, fail) ==
    LET o1 == Outcome(1, fail)
        c1 == Call("get_input_list", client, "", [kind |-> FFMPEG_SOURCE], o1)
        lst == get_input_list(inputs, FFMPEG_SOURCE)
        input_name == lst[1].inputName
        settings == [input |-> url, is_local_file |-> str(FALSE)]
        o2 == Outcome(2, fail)
        c2 == Call("set_input_settings", client, input_name, settings, o2)
    IN  IF o1 # OK THEN Ret(inputs, <<c1>>, None, o1)
        ELSE IF lst # <<>>
        THEN IF o2 # OK THEN Ret(inputs, <<c1, c2>>, None, o2)
             ELSE Ret(set_input_settings(inputs, input_name, settings),
                      <<c1, c2>>, str(TRUE), OK)
        ELSE Ret(inputs, <<c1>>, str(FALSE), OK)

update_first_browser_source_url(inputs, client, url, fail) ==
    LET o1 == Outcome(1, fail)
        c1 == Call("get_input_list", client, "", [kind |-> FFMPEG_SOURCE], o1)
        lst == get_input_list(inputs, FFMPEG_SOURCE)
        input_name == lst[Len(lst)].inputName
        settings == [input |-> url, is_local_file |-> str(FALSE)]
        o2 == Outcome(2, fail)
        c2 == Call("set_input_settings", client, input_name, settings, o2)
    IN  IF o1 # OK THEN Ret(inputs, <<c1>>, None, o1)
        ELSE IF lst # <<>>
        THEN IF o2 # OK THEN Ret(inputs, <<c1, c2>>, None, o2)
             ELSE Ret(set_input_settings(inputs, input_name, settings),
                      <<c1, c2>>, str(TRUE), OK)
        ELSE Ret(inputs, <<c1>>, str(FALSE), OK)

\* Mutant of heibai_filters: enabled=True where the code passes `not enabled`.
RECURSIVE heibai_filters_enable(_, _, _, _, _, _, _, _)
heibai_filters_enable(inputs, client, input_name, fs, i, calls, final, fail) ==
    IF i > Len(fs) THEN Ret(inputs, calls, final, OK)
    ELSE IF fs[i].filterName # HEIBAI
    THEN heibai_filters_enable(inputs, client, input_name, fs, i + 1, calls, final, fail)
    ELSE LET o == Outcome(Len(calls) + 1, fail)
             c == Call("set_source_filter_enabled", client, input_name,
                       [filter_name |-> HEIBAI, enabled |-> str(TRUE)], o)
         IN  IF o # OK THEN Ret(inputs, Append(calls, c), None, o)
             ELSE heibai_filters_enable(
                    set_source_filter_enabled(inputs, input_name, HEIBAI, TRUE),
                    client, input_name, fs, i + 1, Append(calls, c), str(TRUE), fail)

\* The inner loop of change_heibai_state over the filters of one input
\* (lines 95-105): fs is the list the filter call returned, i the position
\* in it, final the value of final_enabled so far.
RECURSIVE heibai_filters(_, _, _, _, _, _, _, _)
heibai_filters(inputs, client, input_name, fs, i, calls, final, fail) ==
    IF i > Len(fs) THEN Ret(inputs, calls, final, OK)
    ELSE IF fs[i].filterName # HEIBAI
    THEN heibai_filters(inputs, client, input_name, fs, i + 1, calls, final, fail)
    ELSE LET enabled == fs[i].filterEnabled
             o == Outcome(Len(calls) + 1, fail)
             c == Call("set_source_filter_enabled", client, input_name,
                       [filter_name |-> HEIBAI, enabled |-> str(~enabled)], o)
         IN  IF o # OK THEN Ret(inputs, Append(calls, c), None, o)
             ELSE heibai_filters(
                    set_source_filter_enabled(inputs, input_name, HEIBAI, ~enabled),
                    client, input_name, fs, i + 1, Append(calls, c), str(~enabled), fail)

\* change_heibai_state: the list call is outside the try; the body of the
\* loop over the inputs returns on its first pass, so only the first input
\* is looked at; OBSSDKError is caught and gives None, anything else escapes.
change_heibai_state(inputs, client, fail) ==
    LET o1 == Outcome(1, fail)
        c1 == Call("get_input_list", client, "", [kind |-> None], o1)
        lst == get_input_list(inputs, None)
        input_name == lst[1].inputName
        o2 == Outcome(2, fail)
        c2 == Call("get_source_filter_list", client, input_name, NoArgs, o2)
        fs == get_source_filter_list(inputs, input_name)
        r == heibai_filters(inputs, client, input_name, fs, 1, <<c1, c2>>, None, fail)
    IN  IF o1 # OK THEN Ret(inputs, <<c1>>, None, o1)
        ELSE IF lst = <<>> THEN Ret(inputs, <<c1>>, None, OK)
        ELSE IF o2 = OBSSDKError THEN Ret(inputs, <<c1, c2>>, None, OK)
        ELSE IF o2 # OK THEN Ret(inputs, <<c1, c2>>, None, o2)
        ELSE IF r.exc = OBSSDKError THEN Ret(r.inputs, r.calls, None, OK)
        ELSE r

----------------------------------------------------------------------------
(* obs_control.py: the persisted settings *)

MISSING == "missing"
CORRUPT == "corrupt"
PRESENT == "present"

DefaultSettings ==
    [host |-> "127.0.0.1", port |-> 4455, password |-> "", url |-> default_mjpeg_url]

OtherSettings ==
    [host |-> "obs.lan", port |-> 4456, password |-> "secret", url |-> "http://x/mjpeg"]

\* What the operator types into the host, port, password and URL fields.
SettingsArgs == {DefaultSettings, OtherSettings}
Urls == {DefaultSettings.url, OtherSettings.url}

\* A JSON value under the key "port": a number without or with a fraction
\* (n.s), a string, or null.
JInt(n) == [t |-> "int", n |-> n, s |-> ""]
JFloat(n, frac) == [t |-> "float", n |-> n, s |-> frac]
JStr(s) == [t |-> "str", n |-> 0, s |-> s]
JNull == [t |-> "null", n |-> 0, s |-> ""]

\* The strings Python's int() reads as a decimal literal, with their values.
IntLiterals == {<<"4455", 4455>>, <<"4456", 4456>>}

\* Python's int(v) on a value json.load returned: an int is itself, a float
\* is truncated, a string is parsed (ValueError when it is no literal), None
\* is a TypeError.
int(v) ==
    IF v.t \in {"int", "float"} THEN [exc |-> OK, n |-> v.n]
    ELSE IF v.t = "str" /\ \E l \in IntLiterals : l[1] = v.s
    THEN [exc |-> OK, n |-> (CHOOSE l \in IntLiterals : l[1] = v.s)[2]]
    ELSE [exc |-> OtherException, n |-> 0]

\* The JSON object json.dump writes for the four values; a port that is an
\* int is written as a JSON number.
Record(host, port, password, url) ==
    [host |-> host, port |-> JInt(port), password |-> password, url |-> url]

File(state, data) == [state |-> state, data |-> data]

\* The four fields before render has built the panel.
NoFields == [host |-> None, port |-> 0, password |-> None, url |-> None]

NoFile == File(MISSING, Record("", 0, "", ""))

\* How one save goes: it writes the record; or it fails before the file is
\* opened (mkdir, open) and the file is as it was; or it fails after
\* open("w") truncated the file and leaves no parsable record.
SaveOutcomes == {"written", "not_opened", "truncated"}

\* Mutant of _load_settings: the URL is not read from the file.
_load_settings_default_url(file) ==
    IF file.state = PRESENT /\ int(file.data.port).exc = OK
    THEN [host |-> file.data.host, port |-> int(file.data.port).n,
          password |-> file.data.password, url |-> DefaultSettings.url]
    ELSE DefaultSettings

\* Mutant of _load_settings: default.update is called key by key, so the keys
\* read before int() raised are kept.
_load_settings_keywise(file) ==
    IF file.state = PRESENT
    THEN IF int(file.data.port).exc = OK
         THEN [host |-> file.data.host, port |-> int(file.data.port).n,
               password |-> file.data.password, url |-> file.data.url]
         ELSE [DefaultSettings EXCEPT !.host = file.data.host]
    ELSE DefaultSettings

\* _load_settings: the defaults, updated with the four keys of the file in
\* one default.update call; any exception (no file is not one: exists() is
\* False) is swallowed and leaves the defaults.
_load_settings(file) ==
    IF file.state = PRESENT /\ int(file.data.port).exc = OK
    THEN [host |-> file.data.host, port |-> int(file.data.port).n,
          password |-> file.data.password, url |-> file.data.url]
    ELSE DefaultSettings

_save_settings(file, host, port, password, url, io) ==
    IF io = "written" THEN File(PRESENT, Record(host, port, password, url))
    ELSE IF io = "truncated" THEN File(CORRUPT, NoFile.data)
    ELSE file

----------------------------------------------------------------------------
(* obs_control.py: the handlers.  Each returns one of these status strings. *)

CONNECT_OK == "connect: connected"               \* line 68
CONNECT_FAILED == "connect: failed"              \* line 71
DISCONNECTED == "disconnect: disconnected"       \* line 78
NOT_CONNECTED == "not connected to OBS"          \* lines 83, 112, 198
BIND_OK == "bind: bound"                         \* line 99
BIND_NOT_FOUND == "bind: no source found"        \* line 99
BIND_FAILED == "bind: failed"                    \* line 102
SAVED == "save: saved"                           \* line 107
BW_ERROR == "bw: update error"                   \* line 115
BW_ON == "bw: applied"                           \* line 116
BW_OFF == "bw: closed"                           \* line 116
VIDEO_NO_PATH == "video: no path in selection"   \* line 211
VIDEO_OK == "video: source updated"              \* line 214
VIDEO_NOT_FOUND == "video: no ffmpeg_source"     \* line 216
VIDEO_ERROR == "video: error"                    \* line 218

\* The record of a handler run: `arg` is the URL or the path it passed to
\* obs_integration ("" when it passed none), `raised` says an exception
\* escaped it (and then it returned nothing), pre_client and pre_inputs are
\* _client and the remote side when it started.
Last(op, arg, result, raised, calls) ==
    [op |-> op, arg |-> arg, result |-> result, raised |-> raised, calls |-> calls,
     pre_client |-> _client, pre_inputs |-> obs_inputs]

NoPrevToggle == [valid |-> FALSE, inputs |-> <<>>]

create_client(host, port, password, outcome) ==
    [calls |-> <<Call("create_client",
                      IF outcome = OK THEN n_clients + 1 ELSE NoClient,
                      host, NoArgs, outcome)>>,
     client |-> IF outcome = OK THEN n_clients + 1 ELSE NoClient,
     exc |-> outcome]

\* Mutant of disconnect_client: no try around client.disconnect().
disconnect_client_unguarded(client, outcome) ==
    IF client # NoClient
    THEN [calls |-> <<Call("disconnect", client, "", NoArgs, outcome)>>, exc |-> outcome]
    ELSE [calls |-> <<>>, exc |-> OK]

\* disconnect_client: client.disconnect() in a try that swallows everything.
disconnect_client(client, outcome) ==
    IF client # NoClient
    THEN [calls |-> <<Call("disconnect", client, "", NoArgs, outcome)>>, exc |-> OK]
    ELSE [calls |-> <<>>, exc |-> OK]

\* Mutant of _do_connect: the except branch does not reset _client.
_do_connect_keeps_client(s, outcome, io) ==
    LET r == create_client(s.host, s.port, s.password, outcome)
    IN  /\ outcome = OK => n_clients < MaxClients
        /\ IF r.exc = OK
           THEN /\ _client' = r.client
                /\ open_clients' = open_clients \cup {r.client}
                /\ n_clients' = n_clients + 1
                /\ settings_file' =
                      _save_settings(settings_file, s.host, s.port, s.password, s.url, io)
                /\ last' = Last("_do_connect", "", CONNECT_OK, FALSE, r.calls)
           ELSE /\ UNCHANGED <<_client, open_clients, n_clients, settings_file>>
                /\ last' = Last("_do_connect", "", CONNECT_FAILED, FALSE, r.calls)
        /\ prev_toggle' = NoPrevToggle
        /\ UNCHANGED obs_inputs

\* Mutant of _do_connect: the settings are saved before the client is created.
_do_connect_saves_first(s, outcome, io) ==
    LET r == create_client(s.host, s.port, s.password, outcome)
    IN  /\ outcome = OK => n_clients < MaxClients
        /\ settings_file' =
              _save_settings(settings_file, s.host, s.port, s.password, s.url, io)
        /\ IF r.exc = OK
           THEN /\ _client' = r.client
                /\ open_clients' = open_clients \cup {r.client}
                /\ n_clients' = n_clients + 1
                /\ last' = Last("_do_connect", "", CONNECT_OK, FALSE, r.calls)
           ELSE /\ _client' = NoClient
                /\ UNCHANGED <<open_clients, n_clients>>
                /\ last' = Last("_do_connect", "", CONNECT_FAILED, FALSE, r.calls)
        /\ prev_toggle' = NoPrevToggle
        /\ UNCHANGED obs_inputs

_do_connect(s, outcome, io) ==
    LET r == create_client(s.host, s.port, s.password, outcome)
    IN  /\ outcome = OK => n_clients < MaxClients
        /\ IF r.exc = OK
           THEN /\ _client' = r.client
                /\ open_clients' = open_clients \cup {r.client}
                /\ n_clients' = n_clients + 1
                /\ settings_file' =
                      _save_settings(settings_file, s.host, s.port, s.password, s.url, io)
                /\ last' = Last("_do_connect", "", CONNECT_OK, FALSE, r.calls)
           ELSE /\ _client' = NoClient
                /\ UNCHANGED <<open_clients, n_clients, settings_file>>
                /\ last' = Last("_do_connect", "", CONNECT_FAILED, FALSE, r.calls)
        /\ prev_toggle' = NoPrevToggle
        /\ UNCHANGED obs_inputs

_do_disconnect(outcome) ==
    LET r == disconnect_client(_client, outcome)
    IN  /\ open_clients' = open_clients \ {_client}
        /\ IF r.exc = OK
           THEN /\ _client' = NoClient
                /\ last' = Last("_do_disconnect", "", DISCONNECTED, FALSE, r.calls)
           ELSE /\ UNCHANGED _client
                /\ last' = Last("_do_disconnect", "", None, TRUE, r.calls)
        /\ prev_toggle' = NoPrevToggle
        /\ UNCHANGED <<n_clients, obs_inputs, settings_file>>

\* Mutant of _do_bind: the URL is saved with the default host, port and
\* password, not with the ones _load_settings returns.
_do_bind_saves_defaults(url, fail, io) ==
    LET r == update_first_browser_source_url(obs_inputs, _client, url, fail)
        data == DefaultSettings
    IN  /\ prev_toggle' = NoPrevToggle
        /\ UNCHANGED <<_client, open_clients, n_clients>>
        /\ IF _client = NoClient
           THEN /\ last' = Last("_do_bind", "", NOT_CONNECTED, FALSE, <<>>)
                /\ UNCHANGED <<obs_inputs, settings_file>>
           ELSE /\ obs_inputs' = r.inputs
                /\ IF r.exc # OK
                   THEN /\ last' = Last("_do_bind", url, BIND_FAILED, FALSE, r.calls)
                        /\ UNCHANGED settings_file
                   ELSE /\ settings_file' =
                              IF settings_file.state # MISSING
                              THEN _save_settings(settings_file, data.host, data.port,
                                                  data.password, url, io)
                              ELSE settings_file
                        /\ last' = Last("_do_bind", url,
                                        IF r.ret = str(TRUE) THEN BIND_OK ELSE BIND_NOT_FOUND,
                                        FALSE, r.calls)

_do_bind(url, fail, io) ==
    LET r == update_first_browser_source_url(obs_inputs, _client, url, fail)
        data == _load_settings(settings_file)
    IN  /\ prev_toggle' = NoPrevToggle
        /\ UNCHANGED <<_client, open_clients, n_clients>>
        /\ IF _client = NoClient
           THEN /\ last' = Last("_do_bind", "", NOT_CONNECTED, FALSE, <<>>)
                /\ UNCHANGED <<obs_inputs, settings_file>>
           ELSE /\ obs_inputs' = r.inputs
                /\ IF r.exc # OK
                   THEN /\ last' = Last("_do_bind", url, BIND_FAILED, FALSE, r.calls)
                        /\ UNCHANGED settings_file
                   ELSE /\ settings_file' =
                              IF settings_file.state # MISSING
                              THEN _save_settings(settings_file, data.host, data.port,
                                                  data.password, url, io)
                              ELSE settings_file
                        /\ last' = Last("_do_bind", url,
                                        IF r.ret = str(TRUE) THEN BIND_OK ELSE BIND_NOT_FOUND,
                                        FALSE, r.calls)

_do_save(s, io) ==
    /\ settings_file' = _save_settings(settings_file, s.host, s.port, s.password, s.url, io)
    /\ last' = Last("_do_save", "", SAVED, FALSE, <<>>)
    /\ prev_toggle' = NoPrevToggle
    /\ UNCHANGED <<_client, open_clients, n_clients, obs_inputs>>

\* render: the panel is built and its four fields take what _load_settings
\* returns.
render ==
    /\ fields' = _load_settings(settings_file)
    /\ last' = Last("render", "", None, FALSE, <<>>)
    /\ prev_toggle' = NoPrevToggle
    /\ UNCHANGED <<_client, open_clients, n_clients, obs_inputs, settings_file>>

\* Mutant of _change_bw: no `_client is None` check, so the list call is made
\* on None and the AttributeError escapes.
_change_bw_unchecked(fail) ==
    LET r == change_heibai_state(obs_inputs, _client, fail)
    IN  /\ UNCHANGED <<_client, open_clients, n_clients, settings_file>>
        /\ prev_toggle' = NoPrevToggle
        /\ IF _client = NoClient
           THEN /\ last' = Last("_change_bw", "", None, TRUE, <<>>)
                /\ UNCHANGED obs_inputs
           ELSE /\ obs_inputs' = r.inputs
                /\ last' =
                      IF r.exc # OK THEN Last("_change_bw", "", None, TRUE, r.calls)
                      ELSE IF r.ret = None THEN Last("_change_bw", "", BW_ERROR, FALSE, r.calls)
                      ELSE Last("_change_bw", "",
                                IF r.ret = str(TRUE) THEN BW_ON ELSE BW_OFF, FALSE, r.calls)

_change_bw(fail) ==
    LET r == change_heibai_state(obs_inputs, _client, fail)
        clean == _client # NoClient /\ AllOk(r.calls)
    IN  /\ UNCHANGED <<_client, open_clients, n_clients, settings_file>>
        /\ prev_toggle' =
              IF clean /\ last.op = "_change_bw" /\ last.pre_client # NoClient
                       /\ AllOk(last.calls)
              THEN [valid |-> TRUE, inputs |-> last.pre_inputs]
              ELSE NoPrevToggle
        /\ IF _client = NoClient
           THEN /\ last' = Last("_change_bw", "", NOT_CONNECTED, FALSE, <<>>)
                /\ UNCHANGED obs_inputs
           ELSE /\ obs_inputs' = r.inputs
                /\ last' =
                      IF r.exc # OK THEN Last("_change_bw", "", None, TRUE, r.calls)
                      ELSE IF r.ret = None THEN Last("_change_bw", "", BW_ERROR, FALSE, r.calls)
                      ELSE Last("_change_bw", "",
                                IF r.ret = str(TRUE) THEN BW_ON ELSE BW_OFF, FALSE, r.calls)

\* evt.value of a gallery selection: a string, a dict, or something else.
\* A dict is read as video.path, then path, then name; "" stands for a key
\* that is absent or empty, BAD_VIDEO for a "video" entry that is no dict.
BAD_VIDEO == "<not a dict>"
Selection(type, value, video, path, name) ==
    [type |-> type, value |-> value, video |-> video, path |-> path, name |-> name]

EvtValues ==
    {Selection("str", p, "", "", "") : p \in AbsolutePaths \cup RelativePaths \cup {""}}
        \cup {Selection("dict", "", "/videos/a.mp4", "bgs/b.mp4", ""),
              Selection("dict", "", "", "bgs/b.mp4", "/videos/a.mp4"),
              Selection("dict", "", "", "", ""),
              Selection("dict", "", BAD_VIDEO, "bgs/b.mp4", ""),
              Selection("other", "", "", "", "")}

\* Lines 199-209: the path in the selection ("" for none), and whether
\* reading it raised.
selected_path(selected) ==
    IF selected.type = "str" THEN [file_path |-> selected.value, exc |-> OK]
    ELSE IF selected.type = "dict"
    THEN IF selected.video = BAD_VIDEO THEN [file_path |-> "", exc |-> OtherException]
         ELSE [file_path |-> IF selected.video # "" THEN selected.video
                             ELSE IF selected.path # "" THEN selected.path
                             ELSE selected.name,
               exc |-> OK]
    ELSE [file_path |-> "", exc |-> OK]

\* Mutant of _on_video_select: the except branch resets _client, as the one
\* of _do_connect does.
_on_video_select_drops_client(selected, fail) ==
    LET sel == selected_path(selected)
        r == update_first_video_source_file(obs_inputs, _client, sel.file_path, fail)
        failed == _client # NoClient /\ (sel.exc # OK \/ (sel.file_path # "" /\ r.exc # OK))
    IN  /\ prev_toggle' = NoPrevToggle
        /\ _client' = IF failed THEN NoClient ELSE _client
        /\ UNCHANGED <<open_clients, n_clients, settings_file>>
        /\ IF _client = NoClient
           THEN /\ last' = Last("_on_video_select", "", NOT_CONNECTED, FALSE, <<>>)
                /\ UNCHANGED obs_inputs
           ELSE IF sel.exc # OK
           THEN /\ last' = Last("_on_video_select", "", VIDEO_ERROR, FALSE, <<>>)
                /\ UNCHANGED obs_inputs
           ELSE IF sel.file_path = ""
           THEN /\ last' = Last("_on_video_select", "", VIDEO_NO_PATH, FALSE, <<>>)
                /\ UNCHANGED obs_inputs
           ELSE /\ obs_inputs' = r.inputs
                /\ last' =
                      IF r.exc # OK THEN Last("_on_video_select", sel.file_path, VIDEO_ERROR, FALSE, r.calls)
                      ELSE Last("_on_video_select", sel.file_path,
                                IF r.ret = str(TRUE) THEN VIDEO_OK ELSE VIDEO_NOT_FOUND,
                                FALSE, r.calls)

_on_video_select(selected, fail) ==
    LET sel == selected_path(selected)
        r == update_first_video_source_file(obs_inputs, _client, sel.file_path, fail)
    IN  /\ prev_toggle' = NoPrevToggle
        /\ UNCHANGED <<_client, open_clients, n_clients, settings_file>>
        /\ IF _client = NoClient
           THEN /\ last' = Last("_on_video_select", "", NOT_CONNECTED, FALSE, <<>>)
                /\ UNCHANGED obs_inputs
           ELSE IF sel.exc # OK
           THEN /\ last' = Last("_on_video_select", "", VIDEO_ERROR, FALSE, <<>>)
                /\ UNCHANGED obs_inputs
           ELSE IF sel.file_path = ""
           THEN /\ last' = Last("_on_video_select", "", VIDEO_NO_PATH, FALSE, <<>>)
                /\ UNCHANGED obs_inputs
           ELSE /\ obs_inputs' = r.inputs
                /\ last' =
                      IF r.exc # OK THEN Last("_on_video_select", sel.file_path, VIDEO_ERROR, FALSE, r.calls)
                      ELSE Last("_on_video_select", sel.file_path,
                                IF r.ret = str(TRUE) THEN VIDEO_OK ELSE VIDEO_NOT_FOUND,
                                FALSE, r.calls)

----------------------------------------------------------------------------
(* obs_control.py: the handlers step by step.  Each button of render is a   *)
(* listener of its own (lines 142-153), so runs of different handlers can   *)
(* be under way in different worker threads at once; no handler takes a     *)
(* lock.  A run is cut where it reads or writes the global _client and      *)
(* where it makes a protocol call.                                          *)

\* A run: `client` is the reference it passes to obs_integration, `issued`
\* the number of protocol calls it has made on it, `plan` the calls it goes
\* on to make if nothing else changes.
NoTask == [op |-> "none", pc |-> "none", client |-> NoClient, issued |-> 0, plan |-> <<>>]

NoTasks == [t \in 1..MaxTasks |-> NoTask]

Task(op, pc, client, issued, plan) ==
    [op |-> op, pc |-> pc, client |-> client, issued |-> issued, plan |-> plan]

NoFail == [at |-> 0, kind |-> OBSSDKError]

\* A worker takes a run of a handler: the lowest free one, and only while no
\* other run of the same listener is under way.
Free(t, op) ==
    /\ tasks[t].op = "none"
    /\ \A u \in 1..MaxTasks : tasks[u].op # op
    /\ \A u \in 1..(t - 1) : tasks[u].op # "none"

\* _do_connect, line 66, right-hand side: create_client.
connect_create(t, s, outcome) ==
    LET r == create_client(s.host, s.port, s.password, outcome)
    IN  /\ Free(t, "_do_connect")
        /\ outcome = OK => n_clients < MaxClients
        /\ IF r.exc = OK
           THEN /\ open_clients' = open_clients \cup {r.client}
                /\ n_clients' = n_clients + 1
                /\ tasks' = [tasks EXCEPT ![t] = Task("_do_connect", "assign", r.client, 0, <<>>)]
           ELSE /\ UNCHANGED <<open_clients, n_clients>>
                /\ tasks' = [tasks EXCEPT ![t] = Task("_do_connect", "except", NoClient, 0, <<>>)]
        /\ UNCHANGED <<_client, obs_inputs, settings_file, last, prev_toggle>>

\* _do_connect, lines 66-68: the assignment to _client and the save; or
\* lines 69-71.
connect_assign(t, s) ==
    /\ tasks[t].op = "_do_connect"
    /\ _client' = tasks[t].client
    /\ settings_file' =
          IF tasks[t].pc = "assign"
          THEN _save_settings(settings_file, s.host, s.port, s.password, s.url, "written")
          ELSE settings_file
    /\ tasks' = [tasks EXCEPT ![t] = NoTask]
    /\ UNCHANGED <<open_clients, n_clients, obs_inputs, last, prev_toggle>>

\* _do_disconnect, line 76: _client is read as the argument of
\* disconnect_client.
disconnect_load(t) ==
    /\ Free(t, "_do_disconnect")
    /\ tasks' = [tasks EXCEPT ![t] = Task("_do_disconnect", "disconnect", _client, 0, <<>>)]
    /\ UNCHANGED <<_client, open_clients, n_clients, obs_inputs, settings_file, last,
                   prev_toggle>>

\* _do_disconnect, line 76: disconnect_client closes the connection.
disconnect_call(t) ==
    /\ tasks[t].op = "_do_disconnect"
    /\ tasks[t].pc = "disconnect"
    /\ open_clients' = open_clients \ {tasks[t].client}
    /\ tasks' = [tasks EXCEPT ![t].pc = "assign"]
    /\ UNCHANGED <<_client, n_clients, obs_inputs, settings_file, last, prev_toggle>>

\* _do_disconnect, line 77: _client = None.
disconnect_assign(t) ==
    /\ tasks[t].op = "_do_disconnect"
    /\ tasks[t].pc = "assign"
    /\ _client' = NoClient
    /\ tasks' = [tasks EXCEPT ![t] = NoTask]
    /\ UNCHANGED <<open_clients, n_clients, obs_inputs, settings_file, last, prev_toggle>>

\* The handlers that make protocol calls on _client, and the URL the bind is
\* given.
Users == {"_do_bind", "_change_bw"}
BoundUrl == default_mjpeg_url

\* _do_bind, lines 82-83, and _change_bw, lines 111-112: the test of _client.
use_check(t, op) ==
    /\ Free(t, op)
    /\ tasks' =
          IF _client = NoClient THEN tasks
          ELSE [tasks EXCEPT ![t] = Task(op, "load", NoClient, 0, <<>>)]
    /\ UNCHANGED <<_client, open_clients, n_clients, obs_inputs, settings_file, last,
                   prev_toggle>>

\* The protocol calls obs_integration makes for a handler on a client, on
\* the remote side as it is.
Plan(op, client) ==
    IF op = "_do_bind"
    THEN update_first_browser_source_url(obs_inputs, client, BoundUrl, NoFail).calls
    ELSE change_heibai_state(obs_inputs, client, NoFail).calls

\* _do_bind, line 85, and _change_bw, line 113: _client is read again, as the
\* argument of the call into obs_integration; on None the first protocol call
\* is an AttributeError, which ends the run.
use_load(t) ==
    /\ tasks[t].op \in Users
    /\ tasks[t].pc = "load"
    /\ tasks' =
          IF _client = NoClient THEN [tasks EXCEPT ![t] = NoTask]
          ELSE [tasks EXCEPT ![t] = Task(tasks[t].op, "call", _client, 0,
                                        Plan(tasks[t].op, _client))]
    /\ UNCHANGED <<_client, open_clients, n_clients, obs_inputs, settings_file, last,
                   prev_toggle>>

\* What a protocol call does to the remote side.
Effect(c, inputs) ==
    IF c.call = "set_input_settings" THEN set_input_settings(inputs, c.name, c.args)
    ELSE IF c.call = "set_source_filter_enabled"
    THEN set_source_filter_enabled(inputs, c.name, c.args.filter_name,
                                   c.args.enabled = str(TRUE))
    ELSE inputs

\* One protocol call of obs_integration on the client the run holds.  On a
\* connection that is closed the call raises and the run ends.  After a call
\* that reads, the calls to come are those its answer leads to.  _do_bind
\* ends with the save of lines 87-96.
use_call(t) ==
    LET run == tasks[t]
        c == Head(run.plan)
        reads == c.call \in {"get_input_list", "get_source_filter_list"}
        now == Plan(run.op, run.client)
        rest == IF reads THEN SubSeq(now, run.issued + 2, Len(now)) ELSE Tail(run.plan)
        data == _load_settings(settings_file)
    IN  /\ run.op \in Users
        /\ run.pc = "call"
        /\ IF run.client \notin open_clients
           THEN /\ tasks' = [tasks EXCEPT ![t] = NoTask]
                /\ UNCHANGED <<obs_inputs, settings_file>>
           ELSE /\ obs_inputs' = Effect(c, obs_inputs)
                /\ IF rest # <<>>
                   THEN /\ tasks' = [tasks EXCEPT ![t].issued = @ + 1, ![t].plan = rest]
                        /\ UNCHANGED settings_file
                   ELSE /\ tasks' = [tasks EXCEPT ![t] = NoTask]
                        /\ settings_file' =
                              IF run.op = "_do_bind" /\ settings_file.state # MISSING
                              THEN _save_settings(settings_file, data.host, data.port,
                                                  data.password, BoundUrl, "written")
                              ELSE settings_file
        /\ UNCHANGED <<_client, open_clients, n_clients, last, prev_toggle>>

----------------------------------------------------------------------------
(* monitor_integration.py: the frame slot and the MJPEG route.  A frame is  *)
(* the number of the capture that delivered it; the slot holds the frame    *)
(* whose bytes are in latest.jpg and how much of them.                      *)

NoSlot == [exists |-> FALSE, frame |-> 0, bytes |-> "none"]

\* How save_latest_frame goes up to open(..., "wb"): the file is opened, and
\* by that truncated; or imencode returns not ok and the function returns; or
\* one of ensure_monitor_dir's callees, cvtColor, imencode or open raises and
\* the except logs it.
SaveOpenOutcomes == {"opened", "not_ok", "raised"}

\* How f.write goes: all bytes are written; or it raises after some of them,
\* or before any, and the except logs it.
SaveWriteOutcomes == {"written", "partial", "raised"}

\* save_latest_frame, lines 60-70: up to the open that truncates the file.
save_latest_frame_open(file, frame, outcome) ==
    IF outcome = "opened" THEN [exists |-> TRUE, frame |-> frame, bytes |-> "none"]
    ELSE file

\* Mutant of save_latest_frame_write: the bytes written are those of the
\* frame before.
save_latest_frame_write_lagging(file, frame, outcome) ==
    IF outcome = "written"
    THEN [exists |-> TRUE, frame |-> IF frame > 1 THEN frame - 1 ELSE frame, bytes |-> "all"]
    ELSE IF outcome = "partial" THEN [exists |-> TRUE, frame |-> frame, bytes |-> "part"]
    ELSE file

\* save_latest_frame, line 71: f.write(buf.tobytes()) and the close.
save_latest_frame_write(file, frame, outcome) ==
    IF outcome = "written" THEN [exists |-> TRUE, frame |-> frame, bytes |-> "all"]
    ELSE IF outcome = "partial" THEN [exists |-> TRUE, frame |-> frame, bytes |-> "part"]
    ELSE file

\* A connection: `seen` is the frame of the last chunk that carried bytes of
\* a frame (0: none yet), `emitted` says a chunk was yielded, `idled` that an
\* iteration found no file, `closed_at` is the number of frames delivered
\* when the connection ended.
NoConn ==
    [state |-> "none", pc |-> "read", seen |-> 0, emitted |-> FALSE, idled |-> FALSE,
     closed_at |-> 0]

\* A connection that has ended: its generator is closed and its locals are
\* gone.
Closed == [NoConn EXCEPT !.state = "closed", !.closed_at = n_frames]

\* mount's _monitor_mjpeg: a GET on the route gets a StreamingResponse over a
\* new generator.  Connections are numbered in the order they are accepted.
_monitor_mjpeg(c) ==
    /\ conns[c].state = "none"
    /\ c > 1 => conns[c - 1].state # "none"
    /\ conns' = [conns EXCEPT ![c].state = "open"]
    /\ UNCHANGED <<slot, sessions, camera_pool, n_frames>>

\* How one iteration of the generator goes up to its sleep: the file is read,
\* if there is one; or open/read raises (inner except); or is_file or
\* _monitor_file_path raises (outer except).
ReadOutcomes == {"read", "read_failed", "is_file_failed"}

\* What an iteration that read the file does: the chunk is yielded with the
\* bytes read, whatever they are.
Yielded(conn) ==
    [conn EXCEPT !.pc = "sleep", !.emitted = TRUE,
                 !.seen = IF slot.bytes = "none" THEN @ ELSE slot.frame]

\* What an iteration that found no file, or that failed, does.
Skipped(conn) == [conn EXCEPT !.pc = "sleep", !.idled = @ \/ ~slot.exists]

\* Mutant of _mjpeg_generator: a failed read yields the chunk of the first
\* frame again.
_mjpeg_generator_cached(c, outcome) ==
    /\ conns[c].state = "open"
    /\ conns[c].pc = "read"
    /\ conns' =
          IF outcome = "read" /\ slot.exists THEN [conns EXCEPT ![c] = Yielded(@)]
          ELSE IF slot.exists /\ conns[c].emitted
          THEN [conns EXCEPT ![c].pc = "sleep", ![c].seen = 1]
          ELSE [conns EXCEPT ![c] = Skipped(@)]
    /\ UNCHANGED <<slot, sessions, camera_pool, n_frames>>

\* Mutant of _mjpeg_generator: the connections share one generator, and an
\* iteration that fails ends it for all of them.
_mjpeg_generator_shared(c, outcome) ==
    /\ conns[c].state = "open"
    /\ conns[c].pc = "read"
    /\ conns' =
          IF outcome = "read" /\ slot.exists THEN [conns EXCEPT ![c] = Yielded(@)]
          ELSE IF ~slot.exists THEN [conns EXCEPT ![c] = Skipped(@)]
          ELSE [d \in DOMAIN conns |->
                  IF conns[d].state = "open"
                  THEN Closed
                  ELSE conns[d]]
    /\ UNCHANGED <<slot, sessions, camera_pool, n_frames>>

\* Mutant of _mjpeg_generator: is_file is called once, before the loop.
_mjpeg_generator_checks_once(c, outcome) ==
    /\ conns[c].state = "open"
    /\ conns[c].pc = "read"
    /\ conns' =
          IF outcome = "read" /\ slot.exists /\ ~conns[c].idled
          THEN [conns EXCEPT ![c] = Yielded(@)]
          ELSE [conns EXCEPT ![c] = Skipped(@)]
    /\ UNCHANGED <<slot, sessions, camera_pool, n_frames>>

\* Mutant of _mjpeg_generator: without a file the generator returns.
_mjpeg_generator_returns(c, outcome) ==
    /\ conns[c].state = "open"
    /\ conns[c].pc = "read"
    /\ conns' =
          IF outcome = "read" /\ slot.exists THEN [conns EXCEPT ![c] = Yielded(@)]
          ELSE IF ~slot.exists
          THEN [conns EXCEPT ![c] = Closed]
          ELSE [conns EXCEPT ![c] = Skipped(@)]
    /\ UNCHANGED <<slot, sessions, camera_pool, n_frames>>

\* _mjpeg_generator, lines 80-92 and 95-96: one iteration up to its sleep.
_mjpeg_generator(c, outcome) ==
    /\ conns[c].state = "open"
    /\ conns[c].pc = "read"
    /\ conns' =
          IF outcome = "read" /\ slot.exists THEN [conns EXCEPT ![c] = Yielded(@)]
          ELSE [conns EXCEPT ![c] = Skipped(@)]
    /\ UNCHANGED <<slot, sessions, camera_pool, n_frames>>

\* _mjpeg_generator, lines 94 and 97: await asyncio.sleep(frame_interval_sec).
_mjpeg_generator_sleep(c) ==
    /\ conns[c].state = "open"
    /\ conns[c].pc = "sleep"
    /\ conns' = [conns EXCEPT ![c].pc = "read"]
    /\ UNCHANGED <<slot, sessions, camera_pool, n_frames>>

\* The client goes away, or sending it a chunk fails: the StreamingResponse
\* ends and closes its generator, at the yield or at the sleep.
disconnect(c) ==
    /\ conns[c].state = "open"
    /\ conns' = [conns EXCEPT ![c] = Closed]
    /\ UNCHANGED <<slot, sessions, camera_pool, n_frames>>

----------------------------------------------------------------------------
(* webcam.py: start and stop.  camera_manager and streamer are not part of  *)
(* the sources at hand; what they do is taken from the specification: the   *)
(* device is opened exclusively, the capture delivers one frame per tick    *)
(* until the handle is released, stop releases the handles.                 *)

INLINE == "inline"
UDP == "udp"
V4L2 == "v4l2"
WebcamModes == {INLINE, UDP, V4L2}

\* The ids the device dropdown offers.
Devices == {0, 1}

\* get_local_camera_capture for session `who`: the handle is opened unless
\* the device is held or cannot be opened.
get_local_camera_capture(pool, webcam_device_id, who, cam) ==
    IF pool[webcam_device_id] = 0 /\ cam = "opened"
    THEN [pool |-> [pool EXCEPT ![webcam_device_id] = who], isOpened |-> TRUE]
    ELSE [pool |-> pool, isOpened |-> FALSE]

\* clear_camera_pool: every handle is released.
clear_camera_pool(pool) == [d \in DOMAIN pool |-> 0]

\* open_stream: the external process and its stdin pipe, or None.
open_stream(piped) == piped = "opened"

\* How a write to the pipe goes.
RelayOutcomes == {"ok", "raised"}

\* One run of start: `stopped` says that stop ran while the loop was running,
\* `saved` is the last frame whose save_latest_frame wrote all its bytes (0:
\* none yet).
Session(device, mode, stream, state) ==
    [device |-> device, mode |-> mode, stream |-> stream, state |-> state,
     pc |-> "frame", frame |-> 0, relayed |-> "", swallowed |-> FALSE,
     stopped |-> FALSE, saved |-> 0]

\* start, lines 502-514: the handle, the pipe for the modes udp and v4l2, and
\* the loop if the handle is open; if it is not, the generator returns at
\* once and the session is "unopened".
start(webcam_device_id, webcam_mode, cam, piped) ==
    LET who == Len(sessions) + 1
        camera_capture == get_local_camera_capture(camera_pool, webcam_device_id, who, cam)
        stream == IF webcam_mode \in {UDP, V4L2} THEN open_stream(piped) ELSE FALSE
    IN  /\ Len(sessions) < MaxSessions
        /\ camera_pool' = camera_capture.pool
        /\ sessions' = Append(sessions,
                              Session(webcam_device_id, webcam_mode, stream,
                                      IF camera_capture.isOpened THEN "running"
                                      ELSE "unopened"))
        /\ UNCHANGED <<slot, n_frames, conns>>

\* What stop means to the runs of start.
Stops(ss) ==
    [i \in DOMAIN ss |->
        IF ss[i].state = "running" THEN [ss[i] EXCEPT !.stopped = TRUE] ELSE ss[i]]

\* Mutant of stop: the handles stay in the pool.
stop_keeps_handles ==
    /\ camera_pool' = camera_pool
    /\ sessions' = Stops(sessions)
    /\ UNCHANGED <<slot, n_frames, conns>>

\* stop, lines 536-538.
stop ==
    /\ camera_pool' = clear_camera_pool(camera_pool)
    /\ sessions' = Stops(sessions)
    /\ UNCHANGED <<slot, n_frames, conns>>

\* Mutant of capture_frame: the loop body goes straight to the relay.
capture_frame_skips_save(i) ==
    /\ sessions[i].state = "running"
    /\ sessions[i].pc = "frame"
    /\ camera_pool[sessions[i].device] = i
    /\ n_frames < MaxFrames
    /\ n_frames' = n_frames + 1
    /\ sessions' = [sessions EXCEPT ![i].pc = "relay", ![i].frame = n_frames + 1,
                                    ![i].relayed = ""]
    /\ UNCHANGED <<slot, camera_pool, conns>>

\* start, lines 519-520: multi_process_capture delivers the next frame, which
\* is converted to RGB.
capture_frame(i) ==
    /\ sessions[i].state = "running"
    /\ sessions[i].pc = "frame"
    /\ camera_pool[sessions[i].device] = i
    /\ n_frames < MaxFrames
    /\ n_frames' = n_frames + 1
    /\ sessions' = [sessions EXCEPT ![i].pc = "save", ![i].frame = n_frames + 1,
                                    ![i].relayed = ""]
    /\ UNCHANGED <<slot, camera_pool, conns>>

\* start, line 519: multi_process_capture ends once the handle is released,
\* and the generator returns.
capture_end(i) ==
    /\ sessions[i].state = "running"
    /\ sessions[i].pc = "frame"
    /\ camera_pool[sessions[i].device] # i
    /\ sessions' = [sessions EXCEPT ![i].state = "ended", ![i].relayed = ""]
    /\ UNCHANGED <<slot, camera_pool, n_frames, conns>>

\* start, lines 522-525, with save_latest_frame up to its open.
save_open(i, outcome) ==
    /\ sessions[i].state = "running"
    /\ sessions[i].pc = "save"
    /\ slot' = save_latest_frame_open(slot, sessions[i].frame, outcome)
    /\ sessions' =
          IF outcome = "opened" THEN [sessions EXCEPT ![i].pc = "write"]
          ELSE [sessions EXCEPT ![i].pc = "relay", ![i].swallowed = TRUE]
    /\ UNCHANGED <<camera_pool, n_frames, conns>>

\* start, lines 522-525, with save_latest_frame's write.
save_write(i, outcome) ==
    /\ sessions[i].state = "running"
    /\ sessions[i].pc = "write"
    /\ slot' = save_latest_frame_write(slot, sessions[i].frame, outcome)
    /\ sessions' =
          IF outcome = "written"
          THEN [sessions EXCEPT ![i].pc = "relay", ![i].saved = sessions[i].frame]
          ELSE [sessions EXCEPT ![i].pc = "relay", ![i].swallowed = TRUE]
    /\ UNCHANGED <<camera_pool, n_frames, conns>>

\* Mutant of relay: no try around stream.stdin.write.
relay_unguarded(i, outcome) ==
    /\ sessions[i].state = "running"
    /\ sessions[i].pc = "relay"
    /\ sessions' =
          IF sessions[i].mode = INLINE
          THEN [sessions EXCEPT ![i].pc = "frame", ![i].relayed = "yield"]
          ELSE IF sessions[i].stream /\ outcome = "ok"
          THEN [sessions EXCEPT ![i].pc = "frame", ![i].relayed = "write"]
          ELSE [sessions EXCEPT ![i].state = "ended"]
    /\ UNCHANGED <<slot, camera_pool, n_frames, conns>>

\* start, lines 527-533: the frame is yielded in inline mode; in any other
\* mode it is written to the pipe, in a try that swallows a failed write and
\* the AttributeError of a stream that is None.
relay(i, outcome) ==
    /\ sessions[i].state = "running"
    /\ sessions[i].pc = "relay"
    /\ sessions' =
          IF sessions[i].mode = INLINE
          THEN [sessions EXCEPT ![i].pc = "frame", ![i].relayed = "yield"]
          ELSE IF sessions[i].stream /\ outcome = "ok"
          THEN [sessions EXCEPT ![i].pc = "frame", ![i].relayed = "write"]
          ELSE [sessions EXCEPT ![i].pc = "frame", ![i].relayed = "swallowed",
                                ![i].swallowed = TRUE]
    /\ UNCHANGED <<slot, camera_pool, n_frames, conns>>

----------------------------------------------------------------------------
(* processors.py: update_processors. *)

\* _available_ids(): the modules found on disk, in scan order.
_available_ids == <<"face_enhancer", "face_swapper">>

\* An id with no module on disk.
UnknownId == "gone"

Range(s) == {s[k] : k \in DOMAIN s}

\* How m.pre_check() goes for the module of an id: it returns True or False,
\* or it raises.
PreCheckOutcomes == {"ok", "false", "raised"}

\* The record of a run of update_processors: what it was given, the stored
\* selection it found, how the pre-checks would go, the ids whose pre_check it
\* called and the ids whose clear_inference_pool it called.
Update(new, old, pre, checked, cleared) ==
    [ran |-> TRUE, new |-> new, old |-> old, pre |-> pre, checked |-> checked,
     cleared |-> cleared]

\* Before update_processors has run.
NoUpdate ==
    [ran |-> FALSE, new |-> <<>>, old |-> <<>>,
     pre |-> [x \in Range(_available_ids) |-> "ok"], checked |-> {}, cleared |-> {}]

\* _current_ids(): the stored item, which is a list.
_current_ids == processors

\* Mutant of update_processors: every id given is pre-checked, not only the
\* added ones.
update_processors_rechecks(new_selected_ids, pre) ==
    LET all_ids == Range(_available_ids)
        Available(x) == x \in all_ids
        new_ids == SelectSeq(new_selected_ids, Available)
        old_ids == _current_ids
        added == new_ids
        failed == {x \in Range(added) : pre[x] # "ok"}
        Passed(x) == x \notin failed
        final_ids == SelectSeq(new_ids, Passed)
        Dropped(x) == x \notin Range(final_ids)
        removed == SelectSeq(old_ids, Dropped)
    IN  /\ processors' = final_ids
        /\ update' = Update(new_selected_ids, old_ids, pre, Range(added), Range(removed))

\* update_processors, lines 91-127: the ids given are filtered by the
\* available ones; those not in the stored selection are pre-checked, and one
\* whose pre_check returns False or raises is dropped; the modules of the
\* stored ids that are not kept get clear_inference_pool; the result is
\* stored.
update_processors(new_selected_ids, pre) ==
    LET all_ids == Range(_available_ids)
        Available(x) == x \in all_ids
        new_ids == SelectSeq(new_selected_ids, Available)
        old_ids == _current_ids
        Added(x) == x \notin Range(old_ids)
        added == SelectSeq(new_ids, Added)
        failed == {x \in Range(added) : pre[x] # "ok"}
        Passed(x) == x \notin failed
        final_ids == SelectSeq(new_ids, Passed)
        Dropped(x) == x \notin Range(final_ids)
        removed == SelectSeq(old_ids, Dropped)
    IN  /\ processors' = final_ids
        /\ update' = Update(new_selected_ids, old_ids, pre, Range(added), Range(removed))

----------------------------------------------------------------------------
(* The specifications. *)

Input(i, kind, filters) ==
    [inputName |-> InputName(i), inputKind |-> kind, filters |-> filters,
     settings |-> DefaultInputSettings]

FilterRecs == [filterName : FilterNames, filterEnabled : BOOLEAN]

\* OBS keeps the filter names of one source distinct.
FilterLists ==
    UNION {{f \in [1..n -> FilterRecs] :
                \A i, j \in 1..n : i # j => f[i].filterName # f[j].filterName}
           : n \in 0..MaxFilters}

\* The scenes Spec starts from: up to MaxInputs inputs of every kind; the
\* filters of the i-th input are fixed.
FiltersOf(i) ==
    IF i % 2 = 1 THEN <<[filterName |-> HEIBAI, filterEnabled |-> FALSE]>>
    ELSE <<[filterName |-> "other", filterEnabled |-> TRUE]>>

InitInputs ==
    UNION {{[i \in 1..n |-> Input(i, kinds[i], FiltersOf(i))] : kinds \in [1..n -> InputKinds]}
           : n \in 0..MaxInputs}

\* The scenes SpecToggle starts from: up to MaxInputs inputs with every list
\* of filters; the kind of the i-th input is fixed.
KindOf(i) == IF i % 2 = 1 THEN FFMPEG_SOURCE ELSE BROWSER_SOURCE

InitToggleInputs ==
    UNION {{[i \in 1..n |-> Input(i, KindOf(i), fs[i])] : fs \in [1..n -> FilterLists]}
           : n \in 0..MaxInputs}

\* Before any start and any connection.
InitMonitor ==
    /\ slot = NoSlot
    /\ sessions = <<>>
    /\ camera_pool = [d \in Devices |-> 0]
    /\ n_frames = 0
    /\ conns = [c \in 1..MaxConns |-> NoConn]

\* No handler run is under way, and update_processors has not run.
InitRest ==
    /\ tasks = NoTasks
    /\ processors = <<>>
    /\ update = NoUpdate

\* Spec: the controller from start-up, on every scene of InitInputs.  The
\* protocol calls fail in every way; the settings the operator types and the
\* way a save goes are fixed.
Init ==
    /\ _client = NoClient
    /\ open_clients = {}
    /\ n_clients = 0
    /\ obs_inputs \in InitInputs
    /\ settings_file = NoFile
    /\ last = [op |-> "init", arg |-> "", result |-> None, raised |-> FALSE, calls |-> <<>>,
               pre_client |-> NoClient, pre_inputs |-> obs_inputs]
    /\ prev_toggle = NoPrevToggle
    /\ fields = NoFields
    /\ InitMonitor
    /\ InitRest

ConnectArgs == {OtherSettings}

Next ==
    \/ \E s \in ConnectArgs, outcome \in {OK, OtherException} :
          _do_connect(s, outcome, "written") /\ UNCHANGED beside_handlers
    \/ \E outcome \in {OK, OtherException} :
          _do_disconnect(outcome) /\ UNCHANGED beside_handlers
    \/ \E url \in Urls, fail \in FailPlans(2) :
          _do_bind(url, fail, "written") /\ UNCHANGED beside_handlers
    \/ \E s \in ConnectArgs : _do_save(s, "written") /\ UNCHANGED beside_handlers
    \/ \E fail \in FailPlans(2 + MaxFilters) : _change_bw(fail) /\ UNCHANGED beside_handlers
    \/ \E selected \in EvtValues, fail \in FailPlans(2) :
          _on_video_select(selected, fail) /\ UNCHANGED beside_handlers

Spec == Init /\ [][Next]_vars

\* SpecToggle: the toggle, pressed again and again on a controller that has
\* just connected, on every scene of InitToggleInputs.
InitToggle ==
    /\ _client = 1
    /\ open_clients = {1}
    /\ n_clients = 1
    /\ obs_inputs \in InitToggleInputs
    /\ settings_file =
          File(PRESENT, Record(OtherSettings.host, OtherSettings.port,
                               OtherSettings.password, OtherSettings.url))
    /\ last = [op |-> "_do_connect", arg |-> "", result |-> CONNECT_OK, raised |-> FALSE,
               calls |-> <<Call("create_client", 1, OtherSettings.host, NoArgs, OK)>>,
               pre_client |-> NoClient, pre_inputs |-> obs_inputs]
    /\ prev_toggle = NoPrevToggle
    /\ fields = NoFields
    /\ InitMonitor
    /\ InitRest

NextToggle ==
    \E fail \in FailPlans(2 + MaxFilters) : _change_bw(fail) /\ UNCHANGED beside_handlers

SpecToggle == InitToggle /\ [][NextToggle]_vars

\* The scenes SpecSettings starts from: the first n inputs of a fixed scene.
InitSettingsInputs ==
    {[i \in 1..n |-> Input(i, KindOf(i), FiltersOf(i))] : n \in 0..MaxInputs}

\* The settings files SpecSettings starts from: none, one that is no JSON,
\* and records as an operator can have edited them, with every kind of value
\* under "port".
EditedPorts == {JInt(4456), JFloat(4456, "5"), JStr("4456"), JStr("abc"), JNull}

InitFiles ==
    {NoFile, File(CORRUPT, NoFile.data)}
        \cup {File(PRESENT, [Record(OtherSettings.host, 0, OtherSettings.password,
                                    OtherSettings.url) EXCEPT !.port = port])
              : port \in EditedPorts}

\* SpecSettings: the handlers that read or write the settings file, from
\* start-up, with every way a save can go.
InitSettings ==
    /\ _client = NoClient
    /\ open_clients = {}
    /\ n_clients = 0
    /\ obs_inputs \in InitSettingsInputs
    /\ settings_file \in InitFiles
    /\ last = [op |-> "init", arg |-> "", result |-> None, raised |-> FALSE, calls |-> <<>>,
               pre_client |-> NoClient, pre_inputs |-> obs_inputs]
    /\ prev_toggle = NoPrevToggle
    /\ fields = NoFields
    /\ InitMonitor
    /\ InitRest

NextSettings ==
    \/ \E s \in SettingsArgs, outcome \in {OK, OtherException}, io \in SaveOutcomes :
          _do_connect(s, outcome, io) /\ UNCHANGED beside_handlers
    \/ \E url \in Urls, fail \in FailPlans(2), io \in SaveOutcomes :
          _do_bind(url, fail, io) /\ UNCHANGED beside_handlers
    \/ \E s \in SettingsArgs, io \in SaveOutcomes :
          _do_save(s, io) /\ UNCHANGED beside_handlers
    \/ render /\ UNCHANGED <<monitor_vars, tasks, processor_vars>>

SpecSettings == InitSettings /\ [][NextSettings]_vars

\* Before anything ran.
InitIdle ==
    /\ _client = NoClient
    /\ open_clients = {}
    /\ n_clients = 0
    /\ obs_inputs = <<>>
    /\ settings_file = NoFile
    /\ last = [op |-> "init", arg |-> "", result |-> None, raised |-> FALSE, calls |-> <<>>,
               pre_client |-> NoClient, pre_inputs |-> obs_inputs]
    /\ prev_toggle = NoPrevToggle
    /\ fields = NoFields
    /\ InitMonitor
    /\ InitRest

\* SpecCapture: one session from its start to its end, on either device and
\* in every mode; every step that can fail fails in every way.
NextCapture ==
    \/ \E d \in Devices, mode \in WebcamModes,
          cam \in {"opened", "unavailable"}, piped \in {"opened", "none"} :
            sessions = <<>> /\ start(d, mode, cam, piped) /\ UNCHANGED control_vars
    \/ stop /\ UNCHANGED control_vars
    \/ \E i \in DOMAIN sessions : capture_frame(i) /\ UNCHANGED control_vars
    \/ \E i \in DOMAIN sessions : capture_end(i) /\ UNCHANGED control_vars
    \/ \E i \in DOMAIN sessions, outcome \in SaveOpenOutcomes :
          save_open(i, outcome) /\ UNCHANGED control_vars
    \/ \E i \in DOMAIN sessions, outcome \in SaveWriteOutcomes :
          save_write(i, outcome) /\ UNCHANGED control_vars
    \/ \E i \in DOMAIN sessions, outcome \in RelayOutcomes :
          relay(i, outcome) /\ UNCHANGED control_vars

SpecCapture == InitIdle /\ [][NextCapture]_vars

\* A step of the loop of some session.
LoopStep ==
    \E i \in DOMAIN sessions :
        \/ capture_frame(i)
        \/ capture_end(i)
        \/ \E outcome \in SaveOpenOutcomes : save_open(i, outcome)
        \/ \E outcome \in SaveWriteOutcomes : save_write(i, outcome)
        \/ \E outcome \in RelayOutcomes : relay(i, outcome)

\* SpecConcurrent: the handlers that touch _client, run by the workers in
\* any interleaving of their steps, on a scene with an input of each kind.
InitConcurrent ==
    /\ _client = NoClient
    /\ open_clients = {}
    /\ n_clients = 0
    /\ obs_inputs = [i \in 1..MaxInputs |-> Input(i, KindOf(i), FiltersOf(i))]
    /\ settings_file = NoFile
    /\ last = [op |-> "init", arg |-> "", result |-> None, raised |-> FALSE, calls |-> <<>>,
               pre_client |-> NoClient, pre_inputs |-> obs_inputs]
    /\ prev_toggle = NoPrevToggle
    /\ fields = NoFields
    /\ InitMonitor
    /\ InitRest

beside_tasks == <<fields, monitor_vars, processor_vars>>

NextConcurrent ==
    \/ \E t \in 1..MaxTasks, outcome \in {OK, OtherException} :
          connect_create(t, OtherSettings, outcome) /\ UNCHANGED beside_tasks
    \/ \E t \in 1..MaxTasks : connect_assign(t, OtherSettings) /\ UNCHANGED beside_tasks
    \/ \E t \in 1..MaxTasks : disconnect_load(t) /\ UNCHANGED beside_tasks
    \/ \E t \in 1..MaxTasks : disconnect_call(t) /\ UNCHANGED beside_tasks
    \/ \E t \in 1..MaxTasks : disconnect_assign(t) /\ UNCHANGED beside_tasks
    \/ \E t \in 1..MaxTasks, op \in Users : use_check(t, op) /\ UNCHANGED beside_tasks
    \/ \E t \in 1..MaxTasks : use_load(t) /\ UNCHANGED beside_tasks
    \/ \E t \in 1..MaxTasks : use_call(t) /\ UNCHANGED beside_tasks

SpecConcurrent == InitConcurrent /\ [][NextConcurrent]_vars

\* The lists the checkbox group can hand to update_processors: up to
\* MaxSelected ids, among them one whose module is gone.
Selections ==
    UNION {[1..n -> Range(_available_ids) \cup {UnknownId}] : n \in 0..MaxSelected}

\* SpecProcessors: update_processors called again and again, with every
\* list and every way the pre-checks can go, from the stored selections a
\* start-up can leave.
InitProcessors ==
    /\ _client = NoClient
    /\ open_clients = {}
    /\ n_clients = 0
    /\ obs_inputs = <<>>
    /\ settings_file = NoFile
    /\ last = [op |-> "init", arg |-> "", result |-> None, raised |-> FALSE, calls |-> <<>>,
               pre_client |-> NoClient, pre_inputs |-> obs_inputs]
    /\ prev_toggle = NoPrevToggle
    /\ fields = NoFields
    /\ InitMonitor
    /\ tasks = NoTasks
    /\ processors \in {<<>>, <<"face_swapper">>}
    /\ update = NoUpdate

beside_processors ==
    <<_client, open_clients, n_clients, obs_inputs, settings_file, last, prev_toggle, fields,
      monitor_vars, tasks>>

NextProcessors ==
    \E new \in Selections, pre \in [Range(_available_ids) -> PreCheckOutcomes] :
        update_processors(new, pre) /\ UNCHANGED beside_processors

SpecProcessors == InitProcessors /\ [][NextProcessors]_vars

\* SpecCaptureFair: SpecCapture under the scheduling a generator gets from
\* the worker that iterates it: a loop that can take a step takes one.
SpecCaptureFair ==
    /\ InitIdle
    /\ [][NextCapture]_vars
    /\ WF_vars(LoopStep /\ UNCHANGED control_vars)

\* SpecSessions: start and stop in any order on both devices, with the loops
\* of the sessions they begin; the sessions are inline and no step of their
\* loops fails.
NextSessions ==
    \/ \E d \in Devices, cam \in {"opened", "unavailable"} :
          start(d, INLINE, cam, "none") /\ UNCHANGED control_vars
    \/ stop /\ UNCHANGED control_vars
    \/ \E i \in DOMAIN sessions : capture_frame(i) /\ UNCHANGED control_vars
    \/ \E i \in DOMAIN sessions : capture_end(i) /\ UNCHANGED control_vars
    \/ \E i \in DOMAIN sessions : save_open(i, "opened") /\ UNCHANGED control_vars
    \/ \E i \in DOMAIN sessions : save_write(i, "written") /\ UNCHANGED control_vars
    \/ \E i \in DOMAIN sessions : relay(i, "ok") /\ UNCHANGED control_vars

SpecSessions == InitIdle /\ [][NextSessions]_vars

\* SpecStream: one inline session that has just begun, and the connections
\* to the MJPEG route that come and go while its loop writes the slot.
InitStream ==
    /\ _client = NoClient
    /\ open_clients = {}
    /\ n_clients = 0
    /\ obs_inputs = <<>>
    /\ settings_file = NoFile
    /\ last = [op |-> "init", arg |-> "", result |-> None, raised |-> FALSE, calls |-> <<>>,
               pre_client |-> NoClient, pre_inputs |-> obs_inputs]
    /\ prev_toggle = NoPrevToggle
    /\ fields = NoFields
    /\ slot = NoSlot
    /\ sessions = <<Session(0, INLINE, FALSE, "running")>>
    /\ camera_pool = [d \in Devices |-> IF d = 0 THEN 1 ELSE 0]
    /\ n_frames = 0
    /\ conns = [c \in 1..MaxConns |-> NoConn]
    /\ InitRest

NextStream ==
    \/ capture_frame(1) /\ UNCHANGED control_vars
    \/ \E outcome \in SaveOpenOutcomes : save_open(1, outcome) /\ UNCHANGED control_vars
    \/ \E outcome \in SaveWriteOutcomes : save_write(1, outcome) /\ UNCHANGED control_vars
    \/ relay(1, "ok") /\ UNCHANGED control_vars
    \/ \E c \in 1..MaxConns : _monitor_mjpeg(c) /\ UNCHANGED control_vars
    \/ \E c \in 1..MaxConns, outcome \in ReadOutcomes :
          _mjpeg_generator(c, outcome) /\ UNCHANGED control_vars
    \/ \E c \in 1..MaxConns : _mjpeg_generator_sleep(c) /\ UNCHANGED control_vars
    \/ \E c \in 1..MaxConns : disconnect(c) /\ UNCHANGED control_vars

SpecStream == InitStream /\ [][NextStream]_vars

\* SpecStreamFair: the session of SpecStream and the first connection, under
\* the scheduling the event loop gives a generator: an iteration that can be
\* run is run, a sleep ends, and a read that can be tried again and again
\* does not fail every time.
NextStreamFair ==
    \/ capture_frame(1) /\ UNCHANGED control_vars
    \/ \E outcome \in SaveOpenOutcomes : save_open(1, outcome) /\ UNCHANGED control_vars
    \/ \E outcome \in SaveWriteOutcomes : save_write(1, outcome) /\ UNCHANGED control_vars
    \/ relay(1, "ok") /\ UNCHANGED control_vars
    \/ _monitor_mjpeg(1) /\ UNCHANGED control_vars
    \/ \E outcome \in ReadOutcomes : _mjpeg_generator(1, outcome) /\ UNCHANGED control_vars
    \/ _mjpeg_generator_sleep(1) /\ UNCHANGED control_vars
    \/ disconnect(1) /\ UNCHANGED control_vars

SpecStreamFair ==
    /\ InitStream
    /\ [][NextStreamFair]_vars
    /\ WF_vars(_mjpeg_generator_sleep(1) /\ UNCHANGED control_vars)
    /\ SF_vars(_mjpeg_generator(1, "read") /\ UNCHANGED control_vars)

----------------------------------------------------------------------------
(* What the claims are stated in. *)

Connected == last.pre_client # NoClient

\* The calls of the last handler that update an input's settings.
SettingsUpdates ==
    LET Test(c) == c.call = "set_input_settings"
    IN  SelectSeq(last.calls, Test)

\* The file-backed inputs the list call returned to the last handler.
ListedInputs == get_input_list(last.pre_inputs, FFMPEG_SOURCE)

\* The last handler called the list call and got its answer.
Listed ==
    /\ Connected
    /\ last.calls # <<>>
    /\ last.calls[1].call = "get_input_list"
    /\ last.calls[1].outcome = OK

\* The positions <<input, filter>> of the filters named HEIBAI, and the
\* first of them in the order of enumeration over all inputs.
Matches(inputs) ==
    UNION {{<<i, j>> : j \in {k \in 1..Len(inputs[i].filters) :
                                inputs[i].filters[k].filterName = HEIBAI}}
           : i \in 1..Len(inputs)}

Before(a, b) == a[1] < b[1] \/ (a[1] = b[1] /\ a[2] <= b[2])

FirstMatch(inputs) ==
    CHOOSE m \in Matches(inputs) : \A o \in Matches(inputs) : Before(m, o)

\* The remote side with the enabled flag of the filter at position m inverted.
Inverted(inputs, m) ==
    [inputs EXCEPT ![m[1]].filters[m[2]].filterEnabled = ~@]

\* A toggle ran on a connected client and none of its protocol calls failed.
CleanToggle == last.op = "_change_bw" /\ Connected /\ AllOk(last.calls)

----------------------------------------------------------------------------
(* The claims. *)

\* C1: at any time at most one remote connection exists that was opened and
\* not yet disconnected.
C1_AtMostOneOpenConnection == Cardinality(open_clients) <= 1

\* C2: a toggle inverts the enabled flag of exactly one filter, the first
\* input/filter pair in enumeration order over all inputs whose filter name
\* matches, and leaves every other filter on every input unchanged.
C2_ToggleInvertsFirstMatch ==
    (CleanToggle /\ Matches(last.pre_inputs) # {})
        => obs_inputs = Inverted(last.pre_inputs, FirstMatch(last.pre_inputs))

\* C3: two consecutive toggles on a connected client, with no operation in
\* between and no protocol call failing, leave every filter's enabled flag
\* (the whole remote side) as it was before the first.
C3_DoubleToggleRestores == prev_toggle.valid => obs_inputs = prev_toggle.inputs

C3_Witness ==
    /\ prev_toggle.valid
    /\ last.pre_inputs # obs_inputs
    /\ obs_inputs = prev_toggle.inputs

\* C4: a toggle on a connected client reports the new enabled state of the
\* filter it inverted when a match exists, and when no input has a filter of
\* that name it reports an outcome other than the error outcome.
C4_ToggleReportsStateOrNotFound ==
    CleanToggle =>
        IF Matches(last.pre_inputs) = {}
        THEN ~last.raised /\ last.result # BW_ERROR
        ELSE LET m == FirstMatch(last.pre_inputs)
             IN  last.result =
                    IF ~last.pre_inputs[m[1]].filters[m[2]].filterEnabled
                    THEN BW_ON ELSE BW_OFF

\* C5: the controller's toggle always returns one of its result values and
\* lets no exception escape; when a protocol call it makes fails, the list
\* call included, it returns the error result.
C5_ToggleNeverRaises ==
    last.op = "_change_bw" =>
        /\ ~last.raised
        /\ last.result \in {BW_ON, BW_OFF, BW_ERROR, NOT_CONNECTED}
        /\ (Connected /\ ~AllOk(last.calls)) => last.result = BW_ERROR

C7_RebindFileFirstInput ==
    (last.op = "_on_video_select" /\ Listed) =>
        IF ListedInputs = <<>>
        THEN /\ last.result = VIDEO_NOT_FOUND
             /\ ~last.raised
             /\ SettingsUpdates = <<>>
             /\ obs_inputs = last.pre_inputs
        ELSE /\ Len(SettingsUpdates) = 1
             /\ SettingsUpdates[1].name = ListedInputs[1].inputName
             /\ SettingsUpdates[1].args = [local_file |-> absolute(last.arg)]

C7_Witness ==
    /\ last.op = "_on_video_select"
    /\ Listed
    /\ Len(ListedInputs) >= 2
    /\ last.result = VIDEO_OK
    /\ obs_inputs # last.pre_inputs

\* C8: with the controller disconnected, bind, toggle and file-source rebind
\* each return the not-connected result, raise nothing and issue no protocol
\* call.
C8_DisconnectedIsNotConnected ==
    (last.op \in {"_do_bind", "_change_bw", "_on_video_select"} /\ ~Connected) =>
        /\ last.result = NOT_CONNECTED
        /\ ~last.raised
        /\ last.calls = <<>>
        /\ obs_inputs = last.pre_inputs

C8_Witness ==
    /\ last.op = "_on_video_select"
    /\ ~Connected
    /\ n_clients > 0
    /\ last.result = NOT_CONNECTED

\* C9: disconnect, in any state, leaves the controller disconnected and
\* raises nothing, also when the teardown call fails; with no client it
\* issues no protocol call.
C9_DisconnectAlwaysDisconnects ==
    last.op = "_do_disconnect" =>
        /\ _client = NoClient
        /\ ~last.raised
        /\ last.result = DISCONNECTED
        /\ ~Connected => last.calls = <<>>

C9_Witness ==
    /\ last.op = "_do_disconnect"
    /\ Connected
    /\ ~AllOk(last.calls)
    /\ _client = NoClient

\* C10: a connect that fails leaves the controller disconnected, whatever
\* the state before it, and returns the failure result without raising.
C10_FailedConnectDisconnected ==
    (last.op = "_do_connect" /\ ~AllOk(last.calls)) =>
        /\ _client = NoClient
        /\ ~last.raised
        /\ last.result = CONNECT_FAILED

C10_Witness ==
    /\ last.op = "_do_connect"
    /\ ~AllOk(last.calls)
    /\ Connected
    /\ _client = NoClient

\* The settings file that holds exactly the four values of s.
FileOf(s) == File(PRESENT, Record(s.host, s.port, s.password, s.url))

\* A value under "port" that int() cannot convert.
Unconvertible(v) == v.t = "null" \/ (v.t = "str" /\ v.s \notin {"4455", "4456"})

\* C11 as stated: a connect step leaves the settings file holding the given
\* host, port, password and URL if it opened the connection, and leaves the
\* file as it was if it did not.
C11_ConnectPersistsIffOpened ==
    [][\A s \in SettingsArgs, outcome \in {OK, OtherException}, io \in SaveOutcomes :
          _do_connect(s, outcome, io) =>
              IF last'.result = CONNECT_OK THEN settings_file' = FileOf(s)
              ELSE settings_file' = settings_file]_vars

\* C11, amended: a connect step that fails to open the connection leaves the
\* settings file as it was; one that opens it saves the given host, port,
\* password and URL, and the file holds exactly them when that save succeeds;
\* a save that fails is swallowed and leaves the file as it was or truncated.
C11_ConnectSavesOnSuccess ==
    [][\A s \in SettingsArgs, outcome \in {OK, OtherException}, io \in SaveOutcomes :
          _do_connect(s, outcome, io) =>
              IF last'.result = CONNECT_OK
              THEN /\ ~last'.raised
                   /\ io = "written" => settings_file' = FileOf(s)
                   /\ io = "not_opened" => settings_file' = settings_file
                   /\ io = "truncated" => settings_file'.state = CORRUPT
              ELSE settings_file' = settings_file]_vars

C11_Witness ==
    /\ last.op = "_do_connect"
    /\ last.result = CONNECT_OK
    /\ last.calls[1].name = DefaultSettings.host
    /\ settings_file = FileOf(DefaultSettings)

\* C12 as stated: after a bind step on a connected controller whose save, if
\* it makes one, succeeds, a load returns the bound URL and the host, port
\* and password a load returned before, whatever the bind returned and
\* whether or not there was a settings file.
C12_BindAlwaysPersistsUrl ==
    [][\A url \in Urls, fail \in FailPlans(2) :
          (_client # NoClient /\ _do_bind(url, fail, "written")) =>
              /\ _load_settings(settings_file').url = url
              /\ _load_settings(settings_file').host = _load_settings(settings_file).host
              /\ _load_settings(settings_file').port = _load_settings(settings_file).port
              /\ _load_settings(settings_file').password
                    = _load_settings(settings_file).password]_vars

\* C12, amended: after a bind step on a connected controller, if the rebind
\* raised nothing (bound, or no matching input) and a settings file existed,
\* the URL is saved with the host, port and password a load returned before,
\* and the file holds exactly them when the save succeeds; after a protocol
\* failure, or when no settings file existed, the file is as it was.
C12_BindPersistsUrlIfFileExists ==
    [][\A url \in Urls, fail \in FailPlans(2), io \in SaveOutcomes :
          (_client # NoClient /\ _do_bind(url, fail, io)) =>
              LET before == _load_settings(settings_file)
                  saves == last'.result \in {BIND_OK, BIND_NOT_FOUND}
                              /\ settings_file.state # MISSING
              IN  /\ (saves /\ io = "written") =>
                        settings_file' = FileOf([before EXCEPT !.url = url])
                  /\ (saves /\ io = "not_opened") => settings_file' = settings_file
                  /\ (saves /\ io = "truncated") => settings_file'.state = CORRUPT
                  /\ ~saves => settings_file' = settings_file]_vars

C12_Witness ==
    /\ last.op = "_do_bind"
    /\ last.result = BIND_NOT_FOUND
    /\ last.arg = DefaultSettings.url
    /\ settings_file = FileOf([OtherSettings EXCEPT !.url = DefaultSettings.url])

C14_LoadDefaultsUnlessIntegerPort ==
    last.op = "render" =>
        /\ ~last.raised
        /\ (settings_file.state # PRESENT \/ settings_file.data.port.t # "int")
              => fields = DefaultSettings

\* C14, amended: render raises nothing, and puts the defaults into the four
\* fields when there is no settings file, when it is no JSON, and when int()
\* cannot convert the value under "port" (null, a string that is no decimal
\* literal); a port that is a float or a string holding a decimal literal is
\* converted and the record's four values are used.
C14_LoadDefaultsUnlessConvertiblePort ==
    last.op = "render" =>
        /\ ~last.raised
        /\ (settings_file.state # PRESENT \/ Unconvertible(settings_file.data.port))
              => fields = DefaultSettings
        /\ (settings_file.state = PRESENT /\ settings_file.data.port.t \in {"float", "str"}
                /\ ~Unconvertible(settings_file.data.port))
              => /\ fields.port = 4456
                 /\ fields.host = settings_file.data.host
                 /\ fields.password = settings_file.data.password
                 /\ fields.url = settings_file.data.url

C14_Witness ==
    /\ last.op = "render"
    /\ settings_file.state = PRESENT
    /\ settings_file.data.host = OtherSettings.host
    /\ settings_file.data.port = JStr("abc")
    /\ fields = DefaultSettings

\* C15: the frame a connection observes in a chunk is never older than the
\* frame it observed in the chunk before: it is the same or a later one.
C15_ReaderMonotonic ==
    [][\A c \in 1..MaxConns :
          (conns[c].state = "open" /\ conns'[c].state = "open")
              => conns'[c].seen >= conns[c].seen]_vars

\* Two open connections have last observed different frames, the first one
\* lagging behind.
C15_Witness ==
    /\ conns[1].state = "open"
    /\ conns[2].state = "open"
    /\ conns[1].seen = 1
    /\ conns[2].seen = 2
    /\ slot.frame = 2

\* C16: a connection ends only when its client goes away or a send fails,
\* never by an error of its own, also when it was opened before any write;
\* and once the slot holds a written frame an open connection eventually
\* emits a chunk, unless it ends first.
C16_IdleThenActive ==
    /\ [][(conns[1].state = "open" /\ conns'[1].state # "open") => disconnect(1)]_vars
    /\ (conns[1].state = "open" /\ slot.bytes = "all")
          ~> (conns[1].emitted \/ conns[1].state = "closed")

\* The connection found no file at first and has emitted a frame since.
C16_Witness ==
    /\ conns[1].state = "open"
    /\ conns[1].idled
    /\ conns[1].emitted
    /\ conns[1].seen > 0

\* C17: while there is no slot file, no connection has emitted a chunk, and
\* an iteration of a connection's loop leaves it open and asleep, from which
\* it comes back to try again.
C17_IdleWithoutFrames ==
    /\ [](~slot.exists => \A c \in 1..MaxConns : ~conns[c].emitted)
    /\ [][\A c \in 1..MaxConns :
            /\ (~slot.exists /\ \E outcome \in ReadOutcomes : _mjpeg_generator(c, outcome))
                  => (conns'[c].state = "open" /\ conns'[c].pc = "sleep"
                        /\ ~conns'[c].emitted)
            /\ (~slot.exists /\ _mjpeg_generator_sleep(c))
                  => (conns'[c].state = "open" /\ conns'[c].pc = "read")]_vars

\* A connection found no file, slept, and is about to try again.
C17_Witness ==
    /\ ~slot.exists
    /\ conns[1].state = "open"
    /\ conns[1].idled
    /\ conns[1].pc = "read"

\* C18: a step that ends one connection, and a read of one connection that
\* fails, change nothing of the other connections, of the slot and of the
\* capture session.
C18_ConnectionsIndependent ==
    [][\A c \in 1..MaxConns :
          (disconnect(c) \/ \E outcome \in {"read_failed", "is_file_failed"} :
                               _mjpeg_generator(c, outcome))
              => /\ \A d \in 1..MaxConns \ {c} : conns'[d] = conns[d]
                 /\ slot' = slot
                 /\ sessions' = sessions
                 /\ camera_pool' = camera_pool]_vars

\* After the first connection ended, the session delivered another frame and
\* the second connection emitted it.
C18_Witness ==
    /\ conns[1].state = "closed"
    /\ conns[2].state = "open"
    /\ conns[2].seen > conns[1].closed_at
    /\ sessions[1].state = "running"

C20_OneSessionPerDevice ==
    \A i, j \in DOMAIN sessions :
        (i < j /\ sessions[i].device = sessions[j].device)
            => ~(/\ sessions[i].state = "running" /\ sessions[i].pc # "frame"
                 /\ sessions[j].state = "running" /\ sessions[j].pc # "frame")

InUse(t) == tasks[t].pc = "call" /\ tasks[t].issued > 0

\* C22: in any interleaving of the handlers, no protocol call is made on a
\* connection that has been closed, and no two runs are using one connection
\* at the same time.
C22_CallsSerialized ==
    /\ [][\A t \in 1..MaxTasks :
            (tasks[t].pc = "call" /\ tasks'[t] # tasks[t])
                => tasks[t].client \in open_clients]_vars
    /\ [](\A t, u \in 1..MaxTasks :
            (t # u /\ InUse(t) /\ InUse(u)) => tasks[t].client # tasks[u].client)

\* No save has failed so far and none is between its open and its write.
Quiet == \A i \in DOMAIN sessions : ~sessions[i].swallowed /\ sessions[i].pc # "write"

\* C23: while every save so far has succeeded and none is under way, an
\* iteration of a generator that reads the slot yields the frame of the most
\* recent save, and yields nothing when there has been none.
C23_NewestWriteWins ==
    [][\A c \in 1..MaxConns :
          (_mjpeg_generator(c, "read") /\ Quiet)
              => IF sessions[1].saved = 0
                 THEN /\ conns'[c].idled
                      /\ conns'[c].seen = 0
                      /\ conns'[c].emitted = conns[c].emitted
                 ELSE /\ conns'[c].emitted
                      /\ conns'[c].seen = sessions[1].saved]_vars

\* A connection read the slot before any save and found nothing, and after
\* two saves it has read the frame of the second.
C23_Witness ==
    /\ Quiet
    /\ sessions[1].saved >= 2
    /\ conns[1].state = "open"
    /\ conns[1].idled
    /\ conns[1].seen = sessions[1].saved

\* C24: the step of an iteration that relays the frame comes after its save,
\* in every mode: unless a failure was discarded, the slot then holds the
\* frame.  The relay is the yield exactly in inline mode, and the write to the
\* pipe exactly in the other modes.
C24_SaveThenRelay ==
    [][\A i \in DOMAIN sessions :
          (sessions[i].relayed = "" /\ sessions'[i].relayed # "")
              => /\ sessions[i].pc = "relay"
                 /\ ~sessions[i].swallowed =>
                       /\ sessions[i].saved = sessions[i].frame
                       /\ slot = [exists |-> TRUE, frame |-> sessions[i].frame, bytes |-> "all"]
                 /\ sessions'[i].relayed = "yield" <=> sessions[i].mode = INLINE
                 /\ sessions'[i].relayed \in {"write", "swallowed"} <=> sessions[i].mode # INLINE
                 /\ (sessions[i].mode # INLINE /\ ~sessions'[i].swallowed)
                       => sessions'[i].relayed = "write"]_vars

\* A session with a pipe saved its second frame and then wrote it to the pipe.
C24_Witness ==
    \E i \in DOMAIN sessions :
        /\ sessions[i].mode = V4L2
        /\ sessions[i].relayed = "write"
        /\ ~sessions[i].swallowed
        /\ sessions[i].frame = 2
        /\ slot.frame = 2

\* C25: an iteration of a generator that yields a chunk has read all the
\* bytes of a frame, whatever the save is doing at that moment.
C25_ChunksComplete ==
    [][\A c \in 1..MaxConns :
          (_mjpeg_generator(c, "read") /\ slot.exists) => slot.bytes = "all"]_vars

\* C26: after a save that failed, at whatever step, the slot holds what the
\* last save that succeeded stored: all the bytes of that frame, or nothing
\* if there was none.
C26_FailedSaveKeepsFrame ==
    \A i \in DOMAIN sessions :
        (sessions[i].pc = "relay" /\ sessions[i].saved # sessions[i].frame)
            => slot = IF sessions[i].saved = 0 THEN NoSlot
                      ELSE [exists |-> TRUE, frame |-> sessions[i].saved, bytes |-> "all"]

\* C27: after a bind, a rebind of the file source or a toggle on a connected
\* controller, however it went, _client is the client it was and that client
\* is still open; _client differs from what it was before the last handler
\* only after a connect or a disconnect.
C27_UsersKeepConnection ==
    /\ (last.op \in {"_do_bind", "_on_video_select", "_change_bw"} /\ Connected)
          => (_client = last.pre_client /\ _client \in open_clients)
    /\ _client # last.pre_client => last.op \in {"_do_connect", "_do_disconnect"}

\* A rebind of the file source whose protocol call failed, on a controller
\* that is still connected.
C27_Witness ==
    /\ last.op = "_on_video_select"
    /\ Connected
    /\ last.result = VIDEO_ERROR
    /\ ~AllOk(last.calls)
    /\ _client = last.pre_client

\* s is t with some of its elements left out.
IsSubSeq(s, t) ==
    \E f \in [1..Len(s) -> 1..Len(t)] :
        /\ \A k \in 1..Len(s) : s[k] = t[f[k]]
        /\ \A j, k \in 1..Len(s) : j < k => f[j] < f[k]

\* C28: after update_processors the stored selection holds available ids
\* only, taken from the list given and in its order; none of them is an added
\* id whose pre-check returned False or raised; every id stored before that
\* is in the list given is kept, and was not pre-checked; and
\* clear_inference_pool was called for just the ids stored before that are
\* stored no longer.
C28_UpdateProcessors ==
    update.ran =>
        /\ Range(processors) \subseteq Range(_available_ids)
        /\ IsSubSeq(processors, update.new)
        /\ \A x \in Range(processors) : x \in Range(update.old) \/ update.pre[x] = "ok"
        /\ \A x \in Range(update.old) \cap Range(update.new) :
              x \in Range(processors) /\ x \notin update.checked
        /\ update.cleared = Range(update.old) \ Range(processors)

\* An update that was given an added id whose pre-check raises and, after it,
\* a stored id whose pre-check would return False: the stored id is kept, the
\* added one is not.
C28_Witness ==
    /\ update.ran
    /\ update.old = <<"face_swapper">>
    /\ update.new = <<"face_enhancer", "face_swapper">>
    /\ update.pre["face_swapper"] = "false"
    /\ update.pre["face_enhancer"] = "raised"
    /\ processors = <<"face_swapper">>

====
